---- MODULE Spec2Model ----
(***************************************************************************)
(* Model of src/app.py: the AWS prefix filter / aggregation logic and the  *)
(* two commands built on it (annotations, create-scopes).  Each command is  *)
(* modelled from its function body, run with the ctx.obj that app() fills. *)
(*                                                                         *)
(* Python lists are sequences, dicts are functions over their key set,     *)
(* sets are sets.  The two dicts built by merge_prefixes hold the list     *)
(* objects; every tuple of `merged` refers to those same list objects, so  *)
(* `merged` holds the ip_prefix of each tuple and the tuple's lists are    *)
(* read through pfx_regions / pfx_services (see tuple_regions,             *)
(* tuple_services).  An in-place list mutation is an update of the dict    *)
(* entry and is seen by every tuple of that prefix.                        *)
(***************************************************************************)
EXTENDS Integers, Sequences, FiniteSets, TLC

VARIABLES
    pc,                   \* position of the running command
    includes,             \* ctx.obj["includes"] (tuple of services)
    excludes,             \* ctx.obj["excludes"] (tuple of services)
    regions,              \* ctx.obj["regions"]  (tuple of regions)
    payload,              \* r.json()['prefixes'], in feed order
    pfx_regions,          \* merge_prefixes: dict ip_prefix -> list of regions
    pfx_services,         \* merge_prefixes: dict ip_prefix -> list of services
    merged,               \* merge_prefixes result: ip_prefix of each tuple
    idx,                  \* annotations: position of the loop over merged
    filtered,             \* annotations: rows collected so far
    uploads,              \* api.upload calls made: <<[rows, ok]>>
    errors,               \* number of logger.error calls
    exit_status,          \* "running", "0" (normal return) or "1" (exception)
    regions_and_services, \* create_scopes: dict region -> set of services
    calls,                \* api.post('/app_scopes') calls made, in order
    service_scope_id,     \* create_scopes local
    region_scope_id,      \* create_scopes local
    region,               \* create_scopes: loop variable of the outer loop
    todoRegions,          \* regions the outer loop has not yet visited
    todoServices,         \* services the inner loop has not yet visited
    arg,                  \* predicate evaluation: the candidate list
    ret                   \* predicate evaluation: the returned values

vars == <<pc, includes, excludes, regions, payload, pfx_regions, pfx_services,
          merged, idx, filtered, uploads, errors, exit_status,
          regions_and_services, calls, service_scope_id, region_scope_id,
          region, todoRegions, todoServices, arg, ret>>

annVars == <<pfx_regions, pfx_services, merged, idx, filtered, uploads>>

scopeVars == <<regions_and_services, calls, service_scope_id, region_scope_id,
               region, todoRegions, todoServices>>

predVars == <<arg, ret>>

----------------------------------------------------------------------------
(* Bounds and universes of the inputs *)

MaxFeed == 3

MaxFilters == 1

MaxScopeFeed == 3

MaxPolicy == 2

MaxArg == 2

Prefixes == {"10.0.0.0/8", "3.5.0.0/16"}

Regions == {"us-east-1", "eu-west-1"}

Services == {"AMAZON", "S3"}

NoId == "no-id"

None == "None"

RootScopeId == "Default"

SeqsUpTo(S, n) == UNION {[1..k -> S] : k \in 0..n}

Records == [ip_prefix : Prefixes, region : Regions, service : Services]

ScopeRecords == [ip_prefix : {"3.5.0.0/16"}, region : Regions, service : Services]

EmptyDict == [k \in {} |-> <<>>]

----------------------------------------------------------------------------
(* Python primitives *)

\* x in lst
In(x, lst) == \E i \in 1..Len(lst) : lst[i] = x

\* for x in xs: if x in lst: return ...   (TRUE when the return is reached)
RECURSIVE LoopIn(_, _, _)
LoopIn(xs, i, lst) ==
    IF i > Len(xs) THEN FALSE
    ELSE IF In(xs[i], lst) THEN TRUE
    ELSE LoopIn(xs, i + 1, lst)

\* for x in xs: if x == v: return ...
RECURSIVE LoopEq(_, _, _)
LoopEq(xs, i, v) ==
    IF i > Len(xs) THEN FALSE
    ELSE IF xs[i] = v THEN TRUE
    ELSE LoopEq(xs, i + 1, v)

\* lst.remove(x): removes the first occurrence
RECURSIVE list_remove(_, _)
list_remove(lst, x) ==
    IF lst = <<>> THEN <<>>
    ELSE IF Head(lst) = x THEN Tail(lst)
    ELSE <<Head(lst)>> \o list_remove(Tail(lst), x)

\* d.setdefault(k, []) followed by append(v) and d[k] = ...
dict_append(d, k, v) ==
    IF k \in DOMAIN d THEN [d EXCEPT ![k] = Append(@, v)]
    ELSE d @@ (k :> <<v>>)

\* defaultdict(set): d[k].add(v)
dict_add(d, k, v) ==
    IF k \in DOMAIN d THEN [d EXCEPT ![k] = @ \cup {v}]
    ELSE d @@ (k :> {v})

\* truth value of a returned value in an `if`
Truthy(v) == v = "True"

----------------------------------------------------------------------------
(* Pure functions of app.py *)

\* variant: nothing is removed
filter_amazon_keep(services) == services

filter_amazon(services) ==
    IF Len(services) > 1 /\ In("AMAZON", services)
    THEN list_remove(services, "AMAZON")
    ELSE services

\* first loop of merge_prefixes: the two accumulator dicts
RECURSIVE merge_accumulate(_, _, _)
merge_accumulate(prefixes, i, acc) ==
    IF i > Len(prefixes) THEN acc
    ELSE merge_accumulate(prefixes, i + 1,
            [regions  |-> dict_append(acc.regions, prefixes[i].ip_prefix,
                                      prefixes[i].region),
             services |-> dict_append(acc.services, prefixes[i].ip_prefix,
                                      prefixes[i].service)])

\* variant: every tuple refers to the first record's prefix
merge_tuples_first(prefixes) == [i \in 1..Len(prefixes) |-> prefixes[1].ip_prefix]

\* second loop of merge_prefixes: one tuple per record, referring to the
\* accumulated lists of its ip_prefix
merge_tuples(prefixes) == [i \in 1..Len(prefixes) |-> prefixes[i].ip_prefix]

merge_prefixes(prefixes) ==
    LET acc == merge_accumulate(prefixes, 1,
                                [regions |-> EmptyDict, services |-> EmptyDict])
    IN  [regions |-> acc.regions, services |-> acc.services,
         merged |-> merge_tuples(prefixes)]

RECURSIVE extract_loop(_, _, _)
extract_loop(prefixes, i, d) ==
    IF i > Len(prefixes) THEN d
    ELSE extract_loop(prefixes, i + 1,
                      dict_add(d, prefixes[i].region, prefixes[i].service))

extract_regions_and_services(prefixes) == extract_loop(prefixes, 1, EmptyDict)

\* annotations.valid_region
annotations_valid_region(p_regions) ==
    IF Len(regions) = 0 THEN "True"
    ELSE IF LoopIn(regions, 1, p_regions) THEN "True"
    ELSE None

\* variant: the excludes loop is missing
annotations_valid_service_noexcl(p_services) ==
    IF Len(includes) = 0 THEN "True"
    ELSE IF LoopIn(includes, 1, p_services) THEN "True"
    ELSE None

\* annotations.valid_service
annotations_valid_service(p_services) ==
    IF LoopIn(excludes, 1, p_services) THEN "False"
    ELSE IF Len(includes) = 0 THEN "True"
    ELSE IF LoopIn(includes, 1, p_services) THEN "True"
    ELSE None

\* variant: every region passes
create_scopes_valid_region_all(p_region) == "True"

\* create_scopes.valid_region
create_scopes_valid_region(p_region) ==
    IF Len(regions) = 0 THEN "True"
    ELSE IF LoopEq(regions, 1, p_region) THEN "True"
    ELSE None

\* create_scopes.valid_service
create_scopes_valid_service(p_service) ==
    IF LoopEq(excludes, 1, p_service) THEN "False"
    ELSE IF Len(includes) = 0 THEN "True"
    ELSE IF LoopEq(includes, 1, p_service) THEN "True"
    ELSE None

\* the lists a tuple of merged refers to
tuple_regions(i) == pfx_regions[merged[i]]

tuple_services(i) == pfx_services[merged[i]]

----------------------------------------------------------------------------
(* Initial states: the state of a command when the feed has been fetched *)

PolicyInit(n) ==
    /\ includes \in SeqsUpTo(Services, n)
    /\ excludes \in SeqsUpTo(Services, n)
    /\ regions \in SeqsUpTo(Regions, n)

AnnIdle ==
    /\ pfx_regions = EmptyDict
    /\ pfx_services = EmptyDict
    /\ merged = <<>>
    /\ idx = 0
    /\ filtered = <<>>
    /\ uploads = <<>>

ScopesIdle ==
    /\ regions_and_services = EmptyDict
    /\ calls = <<>>
    /\ service_scope_id = None
    /\ region_scope_id = None
    /\ region = None
    /\ todoRegions = {}
    /\ todoServices = {}

PredIdle ==
    /\ arg = <<>>
    /\ ret = <<>>

\* annotations command, after payload = r.json() and the three `if not` defaults
InitAnn ==
    /\ pc = "annotations"
    /\ PolicyInit(MaxFilters)
    /\ payload \in SeqsUpTo(Records, MaxFeed)
    /\ errors = 0
    /\ exit_status = "running"
    /\ AnnIdle /\ ScopesIdle /\ PredIdle

\* create_scopes command, after payload = r.json() and the three `if not` defaults
InitScopes ==
    /\ pc = "create_scopes"
    /\ PolicyInit(MaxFilters)
    /\ payload \in SeqsUpTo(ScopeRecords, MaxScopeFeed)
    /\ errors = 0
    /\ exit_status = "running"
    /\ AnnIdle /\ ScopesIdle /\ PredIdle

\* the filter predicates applied to a candidate list
InitPred ==
    /\ pc = "predicates"
    /\ PolicyInit(MaxPolicy)
    /\ payload = <<>>
    /\ errors = 0
    /\ exit_status = "running"
    /\ AnnIdle /\ ScopesIdle
    /\ arg \in SeqsUpTo(Services, MaxArg)
    /\ ret = <<>>

----------------------------------------------------------------------------
(* annotations *)

\* line 179: the call merge_prefixes(payload), before the first iteration
MergePrefixes ==
    /\ pc = "annotations"
    /\ LET m == merge_prefixes(payload)
       IN  /\ pfx_regions' = m.regions
           /\ pfx_services' = m.services
           /\ merged' = m.merged
    /\ idx' = 1
    /\ pc' = "project"
    /\ UNCHANGED <<includes, excludes, regions, payload, filtered, uploads,
                   errors, exit_status>>
    /\ UNCHANGED scopeVars
    /\ UNCHANGED predVars

\* lines 179-184: one iteration of the loop over the merged tuples.
\* filter_amazon removes from the list object itself, which is the list
\* held by the services dict and by every tuple of this ip_prefix.
ProjectStep ==
    /\ pc = "project"
    /\ idx <= Len(merged)
    /\ LET ip_prefix == merged[idx]
           p_regions == tuple_regions(idx)
           p_services == tuple_services(idx)
       IN  IF /\ Truthy(annotations_valid_region(p_regions))
              /\ Truthy(annotations_valid_service(p_services))
           THEN LET kept == filter_amazon(p_services)
                IN  /\ pfx_services' = [pfx_services EXCEPT ![ip_prefix] = kept]
                    /\ filtered' = Append(filtered,
                                      [ip |-> ip_prefix, provider |-> "AWS",
                                       region |-> p_regions[1],
                                       component |-> kept[1]])
           ELSE UNCHANGED <<pfx_services, filtered>>
    /\ idx' = idx + 1
    /\ UNCHANGED <<pc, includes, excludes, regions, payload, pfx_regions, merged,
                   uploads, errors, exit_status>>
    /\ UNCHANGED scopeVars
    /\ UNCHANGED predVars

\* line 186 and annotate(): one upload of all rows; a non-2xx response is
\* logged with logger.error and the command returns normally
Annotate ==
    /\ pc = "project"
    /\ idx > Len(merged)
    /\ \E ok \in BOOLEAN :
          /\ uploads' = Append(uploads, [rows |-> filtered, ok |-> ok])
          /\ errors' = IF ok THEN errors ELSE errors + 1
    /\ pc' = "done"
    /\ exit_status' = "0"
    /\ UNCHANGED <<includes, excludes, regions, payload, pfx_regions,
                   pfx_services, merged, idx, filtered>>
    /\ UNCHANGED scopeVars
    /\ UNCHANGED predVars

NextAnn == MergePrefixes \/ ProjectStep \/ Annotate

SpecAnn == InitAnn /\ [][NextAnn]_vars

----------------------------------------------------------------------------
(* create_scopes *)

\* What the platform can answer to the next POST /app_scopes: a 2xx
\* response carries the created scope with its "id" (the platform gives
\* every scope an id of its own); a non-2xx response carries an error body,
\* with or without an "id" member.
ScopeIdNames == <<"id1", "id2", "id3", "id4", "id5", "id6", "id7">>

NewId == ScopeIdNames[Len(calls) + 1]

Responses ==
    {[ok |-> TRUE, id |-> NewId], [ok |-> FALSE, id |-> NewId],
     [ok |-> FALSE, id |-> NoId]}

\* req_payload of create_service_scope
create_service_scope_payload(p_root_scope_id) ==
    [short_name |-> "AWS", field |-> "user_SaaS Provider", value |-> "AWS",
     parent_app_scope_id |-> p_root_scope_id]

\* req_payload of create_region_scope
create_region_scope_payload(p_service_scope_id, p_region) ==
    [short_name |-> p_region, field |-> "user_SaaS Region", value |-> p_region,
     parent_app_scope_id |-> p_service_scope_id]

\* variant: the component scope is put under the umbrella scope
create_component_scope_payload_flat(p_region_scope_id, p_service) ==
    [short_name |-> p_service, field |-> "user_SaaS Component",
     value |-> p_service, parent_app_scope_id |-> service_scope_id]

\* req_payload of create_component_scope
create_component_scope_payload(p_region_scope_id, p_service) ==
    [short_name |-> p_service, field |-> "user_SaaS Component",
     value |-> p_service, parent_app_scope_id |-> p_region_scope_id]

\* api.post('/app_scopes', ...): the call as the platform sees it, with the
\* region the loop is at and the response it got
Post(body, rgn, resp) ==
    calls' = Append(calls, [body |-> body, region |-> rgn,
                            ok |-> resp.ok, id |-> resp.id])

\* resp.json()["id"] raises when the body has no "id"
Raises(resp) == resp.id = NoId

\* where the outer loop goes when `todo` is what remains to visit
AfterRegion(todo) == IF todo = {} THEN "done" ELSE "regions_loop"

StatusAt(p) == IF p = "done" THEN "0" ELSE IF p = "crashed" THEN "1" ELSE "running"

\* lines 268-269: build the index, create the umbrella scope
CreateServiceScope ==
    /\ pc = "create_scopes"
    /\ LET index == extract_regions_and_services(payload)
       IN  /\ regions_and_services' = index
           /\ \E resp \in Responses :
                /\ Post(create_service_scope_payload(RootScopeId), None, resp)
                /\ IF Raises(resp)
                   THEN /\ pc' = "crashed"
                        /\ UNCHANGED <<service_scope_id, todoRegions>>
                   ELSE /\ service_scope_id' = resp.id
                        /\ todoRegions' = DOMAIN index
                        /\ pc' = AfterRegion(DOMAIN index)
    /\ exit_status' = StatusAt(pc')
    /\ UNCHANGED <<includes, excludes, regions, payload, errors,
                   region_scope_id, region, todoServices>>
    /\ UNCHANGED annVars
    /\ UNCHANGED predVars

\* lines 270-274: one iteration of the loop over the index, in the dict's
\* (arbitrary) order
RegionStep ==
    /\ pc = "regions_loop"
    /\ \E r \in todoRegions :
          /\ region' = r
          /\ todoRegions' = todoRegions \ {r}
          /\ IF Truthy(create_scopes_valid_region(r))
             THEN \E resp \in Responses :
                    /\ Post(create_region_scope_payload(service_scope_id, r),
                            r, resp)
                    /\ IF Raises(resp)
                       THEN /\ pc' = "crashed"
                            /\ UNCHANGED <<region_scope_id, todoServices>>
                       ELSE /\ region_scope_id' = resp.id
                            /\ todoServices' = regions_and_services[r]
                            /\ pc' = "services_loop"
             ELSE /\ pc' = AfterRegion(todoRegions')
                  /\ UNCHANGED <<calls, region_scope_id, todoServices>>
    /\ exit_status' = StatusAt(pc')
    /\ UNCHANGED <<includes, excludes, regions, payload, errors,
                   regions_and_services, service_scope_id>>
    /\ UNCHANGED annVars
    /\ UNCHANGED predVars

\* lines 275-278: one iteration of the loop over the region's services, in
\* the set's (arbitrary) order; the response is not looked at
ServiceStep ==
    /\ pc = "services_loop"
    /\ \E s \in todoServices :
          /\ todoServices' = todoServices \ {s}
          /\ IF Truthy(create_scopes_valid_service(s))
             THEN \E resp \in Responses :
                    Post(create_component_scope_payload(region_scope_id, s),
                         region, resp)
             ELSE UNCHANGED calls
    /\ pc' = IF todoServices' = {} THEN AfterRegion(todoRegions)
             ELSE "services_loop"
    /\ exit_status' = StatusAt(pc')
    /\ UNCHANGED <<includes, excludes, regions, payload, errors,
                   regions_and_services, service_scope_id, region_scope_id,
                   region, todoRegions>>
    /\ UNCHANGED annVars
    /\ UNCHANGED predVars

NextScopes == CreateServiceScope \/ RegionStep \/ ServiceStep

SpecScopes == InitScopes /\ [][NextScopes]_vars

----------------------------------------------------------------------------
(* the filter predicates on their own *)

\* valid_service of the annotations path on the candidate list and on every
\* one-element list, valid_service of the create-scopes path on every service
EvalPredicates ==
    /\ pc = "predicates"
    /\ ret' = [seq    |-> annotations_valid_service(arg),
               single |-> [s \in Services |-> annotations_valid_service(<<s>>)],
               one    |-> [s \in Services |-> create_scopes_valid_service(s)]]
    /\ pc' = "evaluated"
    /\ UNCHANGED <<includes, excludes, regions, payload, errors, exit_status, arg>>
    /\ UNCHANGED annVars
    /\ UNCHANGED scopeVars

NextPred == EvalPredicates

SpecPred == InitPred /\ [][NextPred]_vars

----------------------------------------------------------------------------
(* any of the three *)

Init == InitAnn \/ InitScopes \/ InitPred

Next == NextAnn \/ NextScopes \/ NextPred

Spec == Init /\ [][Next]_vars

----------------------------------------------------------------------------
(* What the feed says about a prefix, read directly off the payload *)

RecordsOf(p) == SelectSeq(payload, LAMBDA r : r.ip_prefix = p)

FeedRegions(p) == [j \in 1..Len(RecordsOf(p)) |-> RecordsOf(p)[j].region]

FeedServices(p) == [j \in 1..Len(RecordsOf(p)) |-> RecordsOf(p)[j].service]

\* first service of the feed's list once one "AMAZON" is dropped from a list
\* of more than one element
ExpectedComponent(p) ==
    LET s == FeedServices(p)
    IN  IF Len(s) > 1 /\ s[1] = "AMAZON" THEN s[2] ELSE s[1]

RowsOf(p) == {k \in 1..Len(filtered) : filtered[k].ip = p}

NoFilters == includes = <<>> /\ excludes = <<>> /\ regions = <<>>

AmazonThenSpecific ==
    /\ Len(payload) = 2
    /\ payload[1].ip_prefix = payload[2].ip_prefix
    /\ payload[1].region = payload[2].region
    /\ payload[1].service = "AMAZON"
    /\ payload[2].service # "AMAZON"

SpecificRow ==
    [ip |-> payload[1].ip_prefix, provider |-> "AWS",
     region |-> payload[1].region, component |-> payload[2].service]

MergeReturned == pc = "project" /\ idx = 1

----------------------------------------------------------------------------
(* annotations: properties *)

\* C2 as stated: with no filters, the feed <<(p, r, AMAZON), (p, r, S)>> makes
\* the run upload exactly one row, (p, "AWS", r, S).
C2_OneRowUploaded ==
    (pc = "done" /\ NoFilters /\ AmazonThenSpecific)
        => (Len(uploads) = 1 /\ uploads[1].rows = <<SpecificRow>>)

\* C2 amended: with no filters, the feed <<(p, r, AMAZON), (p, r, S)>> makes
\* the run upload, in its one upload call, exactly two rows, both
\* (p, "AWS", r, S): one per raw record.
C2_TwoIdenticalRowsUploaded ==
    (pc = "done" /\ NoFilters /\ AmazonThenSpecific)
        => (Len(uploads) = 1 /\ uploads[1].rows = <<SpecificRow, SpecificRow>>)

C2_Witness == pc = "done" /\ NoFilters /\ AmazonThenSpecific

\* C5: every emitted row's component is the first element of the prefix's
\* complete feed services list after one "AMAZON" is dropped (when the list
\* has more than one element), for every occurrence of the prefix.
C5_ComponentIsFirstAfterFilter ==
    \A k \in 1..Len(filtered) :
        filtered[k].component = ExpectedComponent(filtered[k].ip)

\* C6: merge_prefixes returns one tuple per record, in feed order, the i-th
\* with the i-th record's ip_prefix and the complete regions and services
\* lists of that prefix in feed order, repeats kept.
C6_MergeComplete ==
    MergeReturned =>
        /\ Len(merged) = Len(payload)
        /\ \A i \in 1..Len(payload) :
              /\ merged[i] = payload[i].ip_prefix
              /\ merged[i] \in DOMAIN pfx_regions
              /\ merged[i] \in DOMAIN pfx_services
              /\ tuple_regions(i) = FeedRegions(payload[i].ip_prefix)
              /\ tuple_services(i) = FeedServices(payload[i].ip_prefix)

C6_Witness ==
    /\ MergeReturned
    /\ Len(payload) = 3
    /\ payload[1].ip_prefix = payload[3].ip_prefix
    /\ payload[2].ip_prefix # payload[1].ip_prefix
    /\ payload[1].service # payload[3].service
    /\ payload[1].region # payload[3].region

\* C7: at every point of an annotations run from the return of
\* merge_prefixes on, every aggregated tuple has as many regions as
\* services, both as many as the prefix has raw records.
C7_LengthsAgree ==
    pc \in {"project", "done"} =>
        \A i \in 1..Len(merged) :
            /\ Len(tuple_regions(i)) = Len(tuple_services(i))
            /\ Len(tuple_regions(i)) = Len(RecordsOf(merged[i]))

\* C8: when the projection loop has ended, each prefix has a row for every
\* one of its raw records or for none, and all rows of a prefix are equal.
C8_OccurrencesAlike ==
    pc = "done" =>
        \A p \in Prefixes :
            /\ Cardinality(RowsOf(p)) \in {0, Len(RecordsOf(p))}
            /\ \A k, l \in RowsOf(p) : filtered[k] = filtered[l]

\* C9: the rows go out in exactly one upload call, and a non-2xx response
\* is reported once and makes the run end with a failure status.
C9_FailedUploadFailsRun ==
    pc = "done" =>
        /\ Len(uploads) = 1
        /\ uploads[1].rows = filtered
        /\ ~uploads[1].ok => (errors = 1 /\ exit_status # "0")

----------------------------------------------------------------------------
(* The policy and the index, read directly off the inputs *)

Range(f) == {f[i] : i \in DOMAIN f}

RegionPasses(r) == regions = <<>> \/ r \in Range(regions)

ServicePasses(s) ==
    /\ s \notin Range(excludes)
    /\ includes = <<>> \/ s \in Range(includes)

IndexKeys == {payload[i].region : i \in 1..Len(payload)}

IndexServices(r) ==
    {payload[i].service : i \in {n \in 1..Len(payload) : payload[n].region = r}}

AllowedRegions == {r \in IndexKeys : RegionPasses(r)}

AllowedPairs ==
    {rs \in AllowedRegions \X Services :
        rs[2] \in IndexServices(rs[1]) /\ ServicePasses(rs[2])}

ServiceCalls ==
    {j \in 1..Len(calls) : calls[j].body.field = "user_SaaS Provider"}

RegionCalls ==
    {j \in 1..Len(calls) : calls[j].body.field = "user_SaaS Region"}

ComponentCalls ==
    {j \in 1..Len(calls) : calls[j].body.field = "user_SaaS Component"}

AllOk == \A j \in 1..Len(calls) : calls[j].ok

FailedBelowUmbrella == {j \in RegionCalls \cup ComponentCalls : ~calls[j].ok}

----------------------------------------------------------------------------
(* the filter predicates: properties *)

\* C1: valid_service of the annotations path is false when an element of the
\* list is excluded, else true when there are no includes, else true exactly
\* when an element is included; valid_service of the create-scopes path
\* returns for a service what the annotations one returns for the
\* one-element list holding it.
C1_ServicePredicate ==
    (pc = "evaluated" /\ arg # <<>>) =>
        /\ (Range(arg) \cap Range(excludes) # {}) => ret.seq = "False"
        /\ Truthy(ret.seq) <=>
              /\ Range(arg) \cap Range(excludes) = {}
              /\ includes = <<>> \/ Range(arg) \cap Range(includes) # {}
        /\ \A s \in Services : ret.one[s] = ret.single[s]

C1_Witness ==
    /\ pc = "evaluated"
    /\ Len(arg) = 2
    /\ arg[1] \in Range(includes)
    /\ arg[1] \notin Range(excludes)
    /\ arg[2] \in Range(excludes)
    /\ ret.seq = "False"

----------------------------------------------------------------------------
(* create_scopes: properties *)

\* C3: a failed region-tier or component-tier call is reported and the run
\* goes on: it is not aborted, every allowed region gets its call and every
\* allowed service of a region whose scope was created gets its call.
C3_FailureIsolated ==
    (Len(calls) >= 1 /\ calls[1].ok) =>
        /\ errors = Cardinality(FailedBelowUmbrella)
        /\ exit_status # "running" =>
              /\ pc = "done"
              /\ \A r \in AllowedRegions :
                    \E j \in RegionCalls :
                        /\ calls[j].body.short_name = r
                        /\ calls[j].ok =>
                              \A s \in {t \in IndexServices(r) : ServicePasses(t)} :
                                  \E k \in ComponentCalls :
                                      /\ calls[k].region = r
                                      /\ calls[k].body.short_name = s

\* C4: when every call succeeds, region-tier calls go to exactly the index
\* regions that pass the region filter, once each, and component-tier calls
\* to exactly the (region, service) pairs of passed regions whose service is
\* in the region's set and passes the service filter, once each; no call is
\* ever made for a disallowed region or a service of one.
C4_CallsMatchPolicy ==
    AllOk =>
        /\ \A j \in RegionCalls : calls[j].body.short_name \in AllowedRegions
        /\ \A j \in ComponentCalls :
              <<calls[j].region, calls[j].body.short_name>> \in AllowedPairs
        /\ \A j, k \in RegionCalls :
              calls[j].body.short_name = calls[k].body.short_name => j = k
        /\ \A j, k \in ComponentCalls :
              (/\ calls[j].region = calls[k].region
               /\ calls[j].body.short_name = calls[k].body.short_name) => j = k
        /\ pc = "done" =>
              /\ \A r \in AllowedRegions :
                    \E j \in RegionCalls : calls[j].body.short_name = r
              /\ \A rs \in AllowedPairs :
                    \E j \in ComponentCalls :
                        /\ calls[j].region = rs[1]
                        /\ calls[j].body.short_name = rs[2]

C4_Witness ==
    /\ pc = "done"
    /\ AllOk
    /\ \E r \in IndexKeys : ~RegionPasses(r)
    /\ \E r \in AllowedRegions :
          \E s, t \in IndexServices(r) : ServicePasses(s) /\ ~ServicePasses(t)
    /\ RegionCalls # {}
    /\ ComponentCalls # {}

\* C10: when every call succeeds, the "AWS" call under the root scope is the
\* first call and the only one of its tier, also when no region passes;
\* every region-tier call has the id it returned as parent; every
\* component-tier call follows its region's call with no other region's
\* call in between and has that call's id as parent; a finished run has made
\* 1 + (allowed regions) + (allowed services of allowed regions) calls.
C10_TierOrder ==
    AllOk =>
        /\ pc \in {"regions_loop", "services_loop", "done"} => Len(calls) >= 1
        /\ Len(calls) >= 1 =>
              /\ calls[1].body.short_name = "AWS"
              /\ calls[1].body.parent_app_scope_id = RootScopeId
              /\ ServiceCalls = {1}
        /\ \A j \in RegionCalls : calls[j].body.parent_app_scope_id = calls[1].id
        /\ \A j \in ComponentCalls :
              \E i \in RegionCalls :
                  /\ i < j
                  /\ \A m \in RegionCalls : ~(i < m /\ m < j)
                  /\ calls[i].body.short_name = calls[j].region
                  /\ calls[j].body.parent_app_scope_id = calls[i].id
        /\ pc = "done" =>
              Len(calls) = 1 + Cardinality(AllowedRegions) + Cardinality(AllowedPairs)

C10_Witness ==
    /\ pc = "done"
    /\ AllOk
    /\ Cardinality(RegionCalls) = 2
    /\ \E j, k \in ComponentCalls : calls[j].region # calls[k].region
    /\ Len(calls) < 1 + Len(payload) + Cardinality(IndexKeys)

====
